---- MODULE Spec2Model ----
(***************************************************************************)
(* Model of the Image-Resizer static frontend.                             *)
(*                                                                         *)
(*   Spec      the Upload/Process Workflow Controller of src/app.js: the   *)
(*             file-input change handler, the folder-name input handler,   *)
(*             the process click handler and the continuations of its      *)
(*             awaits (fetch, response.json(), response.blob()).           *)
(*   SpecSelect  the file-input change handler applied to file names of    *)
(*             every shape up to MaxNameLen (formatFileName).              *)
(*   SpecShell the app shell's loadCurrentUser of src/app.js.              *)
(*                                                                         *)
(* Text that the code inspects character by character (file names, typed   *)
(* folder names, the JSON text of the form fields) is a sequence of        *)
(* one-character strings; text that is only displayed is a string.         *)
(***************************************************************************)
EXTENDS Integers, Sequences, FiniteSets, TLC

VARIABLES
    filesState,     \* app.js:24  sequence of [file, mainFolder]
    disabled,       \* processBtn.disabled
    statusText,     \* statusText.textContent
    progressWidth,  \* progressFill.style.width, in percent
    downloadArea,   \* children of #downloadArea, in document order
    inflight,       \* click handlers suspended at an await, by position
    objectURLs,     \* object URLs created by app.js:185 and not revoked
    lastEvent,      \* the handler that ran last, with its input and output
    shell           \* app shell (loadCurrentUser): page, profile DOM, location

vars == <<filesState, disabled, statusText, progressWidth, downloadArea,
          inflight, objectURLs, lastEvent, shell>>

wfVars == <<filesState, disabled, statusText, progressWidth, downloadArea,
            inflight, objectURLs>>

-----------------------------------------------------------------------------
(* Bounds *)

MaxFiles == 2
MaxInflight == 2
MaxNameLen == 3
MaxURLs == 3

-----------------------------------------------------------------------------
(* Text helpers *)

SeqsUpTo(S, n) == UNION {[1..k -> S] : k \in 0..n}

WhiteSpace == {" ", "\t"}

RECURSIVE trimStart(_)
trimStart(s) ==
    IF s # <<>> /\ Head(s) \in WhiteSpace THEN trimStart(Tail(s)) ELSE s

RECURSIVE trimEnd(_)
trimEnd(s) ==
    IF s # <<>> /\ s[Len(s)] \in WhiteSpace
    THEN trimEnd(SubSeq(s, 1, Len(s) - 1))
    ELSE s

trim(s) == trimEnd(trimStart(s))

Max(a, b) == IF a >= b THEN a ELSE b
Min(a, b) == IF a <= b THEN a ELSE b

-----------------------------------------------------------------------------
(* app.js helpers *)

\* Positions where /\.[^/.]+$/ matches: a dot followed, up to the end of the
\* name, by one or more characters that are neither "/" nor ".".
ExtensionMatches(name) ==
    {i \in 1..Len(name) :
        /\ name[i] = "."
        /\ i < Len(name)
        /\ \A j \in (i + 1)..Len(name) : name[j] \notin {"/", "."}}

DefaultFolder == <<"i", "m", "a", "g", "e">>

\* Variant: the name is cut at its first dot (as /\..*$/ would).
formatFileName_FirstDot(name) ==
    LET dots == {i \in 1..Len(name) : name[i] = "."}
        base == IF dots = {}
                THEN name
                ELSE SubSeq(name, 1,
                            (CHOOSE i \in dots : \A k \in dots : i <= k) - 1)
    IN  IF base = <<>> THEN DefaultFolder ELSE base

formatFileName(name) ==
    LET m == ExtensionMatches(name)
        base == IF m = {}
                THEN name
                ELSE SubSeq(name, 1,
                            (CHOOSE i \in m : \A k \in m : i <= k) - 1)
    IN  IF base = <<>> THEN DefaultFolder ELSE base

\* setProgress: the width in percent for a value given as a fraction.
setProgress(value) == Max(0, Min(1, value)) * 100

\* filesState.every((entry) => entry.mainFolder): a string is truthy iff it
\* is not empty.
everyMainFolder(fs) == \A i \in 1..Len(fs) : fs[i].mainFolder # <<>>

\* The value renderFiles leaves in processBtn.disabled.
renderFiles(fs) == IF Len(fs) = 0 THEN TRUE ELSE ~everyMainFolder(fs)

\* JSON.stringify of one string: quoted, with the quote, the backslash and
\* the tab escaped.
RECURSIVE jsonEscape(_)
jsonEscape(s) ==
    IF s = <<>> THEN <<>>
    ELSE (CASE Head(s) = "\"" -> <<"\\", "\"">>
            [] Head(s) = "\\" -> <<"\\", "\\">>
            [] Head(s) = "\t" -> <<"\\", "t">>
            [] OTHER -> <<Head(s)>>) \o jsonEscape(Tail(s))

RECURSIVE jsonJoin(_)
jsonJoin(list) ==
    IF list = <<>> THEN <<>>
    ELSE <<"\"">> \o jsonEscape(Head(list)) \o <<"\"">>
         \o (IF Tail(list) = <<>> THEN <<>> ELSE <<",">>)
         \o jsonJoin(Tail(list))

\* JSON.stringify of an array of strings, as text.
JSONstringify(list) == <<"[">> \o jsonJoin(list) \o <<"]">>

\* Variant: the folder names are collected in reverse order.
BuildFormData_Reversed(fs) ==
    LET mainFolders == [i \in 1..Len(fs) |-> fs[Len(fs) + 1 - i].mainFolder]
    IN  [i \in 1..Len(fs) |->
            [name |-> "files", value |-> fs[i].file, filename |-> fs[i].file]]
        \o <<[name |-> "base_names", value |-> JSONstringify(mainFolders),
              filename |-> <<>>],
             [name |-> "main_folder", value |-> JSONstringify(mainFolders),
              filename |-> <<>>]>>

\* The FormData the click handler builds: the entries in append order.
BuildFormData(fs) ==
    LET mainFolders == [i \in 1..Len(fs) |-> fs[i].mainFolder]
    IN  [i \in 1..Len(fs) |->
            [name |-> "files", value |-> fs[i].file, filename |-> fs[i].file]]
        \o <<[name |-> "base_names", value |-> JSONstringify(mainFolders),
              filename |-> <<>>],
             [name |-> "main_folder", value |-> JSONstringify(mainFolders),
              filename |-> <<>>]>>

\* URL.createObjectURL in createDownloadCard: one more URL is held by the
\* document; app.js never calls URL.revokeObjectURL.
createObjectURL(urls) == urls + 1

\* createDownloadCard: the card appended to the download area.
createDownloadCard(name) ==
    [label |-> name, download |-> name, linkText |-> "Download zip"]

-----------------------------------------------------------------------------
(* Environment of the workflow: files the user can pick, text the user can  *)
(* type, and what the server can answer.                                    *)

\* Names of the files offered by the file dialog.
SampleNames == {<<"a", ".", "p">>, <<".", "p">>}

Selections == SeqsUpTo(SampleNames, MaxFiles)

\* Text the user leaves in a folder-name field (target.value).
TypedValues == {<<>>, <<" ">>, <<"c">>, <<" ", "c", " ">>}

\* Bodies of non-2xx answers of /resize.  syntax is what JSON.parse makes of
\* the raw text; detail is the detail member, detailType its type.
ErrorBodies == {
    [raw |-> "{\"detail\":\"bad image\"}", syntax |-> "object",
     detailType |-> "string", detail |-> "bad image"],
    [raw |-> "{\"detail\":\"\"}", syntax |-> "object",
     detailType |-> "string", detail |-> ""],
    [raw |-> "{\"detail\":[{\"msg\":\"field required\"}]}", syntax |-> "object",
     detailType |-> "array", detail |-> "[object Object]"],
    [raw |-> "{}", syntax |-> "object",
     detailType |-> "undefined", detail |-> ""],
    [raw |-> "null", syntax |-> "null",
     detailType |-> "undefined", detail |-> ""],
    [raw |-> "Internal Server Error", syntax |-> "invalid",
     detailType |-> "undefined", detail |-> ""]}

\* error.message of the TypeError of a rejected fetch, by browser.
FetchFailedMessages == {"Failed to fetch", "Load failed"}

\* error.message of the TypeError of reading a body that was already read
\* (response.text() after response.json()), by browser.
BodyUsedMessages ==
    {"Failed to execute 'text' on 'Response': body stream already read",
     "Response.text: Body has already been consumed."}

\* error.message of a body stream that fails while it is read.
BodyFailedMessages == {"network error"}

Positions == {"fetch", "json", "blob"}

Outstanding == inflight["fetch"] + inflight["json"] + inflight["blob"]

Suspend(at) == [inflight EXCEPT ![at] = @ + 1]
Move(from, to) == [inflight EXCEPT ![from] = @ - 1, ![to] = @ + 1]
Finish(at) == [inflight EXCEPT ![at] = @ - 1]

-----------------------------------------------------------------------------
(* Workflow handlers (src/app.js) *)

FileInputChange_KeepProgress(files) ==
    /\ files # <<>> \/ filesState # <<>>
    /\ filesState' = [i \in 1..Len(files) |->
                        [file |-> files[i],
                         mainFolder |-> formatFileName(files[i])]]
    /\ downloadArea' = <<>>
    /\ UNCHANGED progressWidth
    /\ statusText' = "Files loaded. Add folder names and hit process."
    /\ disabled' = renderFiles(filesState')
    /\ lastEvent' = [op |-> "change", files |-> files]
    /\ UNCHANGED <<inflight, shell, objectURLs>>

\* fileInput "change" listener.  The browser fires it when the selection
\* changes, so an empty selection can only follow a non-empty one.
FileInputChange(files) ==
    /\ files # <<>> \/ filesState # <<>>
    /\ filesState' = [i \in 1..Len(files) |->
                        [file |-> files[i],
                         mainFolder |-> formatFileName(files[i])]]
    /\ downloadArea' = <<>>
    /\ progressWidth' = setProgress(0)
    /\ statusText' = "Files loaded. Add folder names and hit process."
    /\ disabled' = renderFiles(filesState')
    /\ lastEvent' = [op |-> "change", files |-> files]
    /\ UNCHANGED <<inflight, shell, objectURLs>>

\* fileList "input" listener, for the input rendered with data-index i
\* (zero-based in the page, one-based here).
updateStateFromInputs(i, value) ==
    /\ i \in 1..Len(filesState)
    /\ filesState' = [filesState EXCEPT ![i].mainFolder = trim(value)]
    /\ disabled' = ~everyMainFolder(filesState')
    /\ lastEvent' = [op |-> "input", index |-> i]
    /\ UNCHANGED <<statusText, progressWidth, downloadArea, inflight, shell, objectURLs>>

\* Variant: the click listener without its `!filesState.length` guard.
ProcessClick_NoGuard ==
    /\ ~disabled
    /\ Outstanding < MaxInflight
    /\ objectURLs + Outstanding < MaxURLs
    /\ disabled' = TRUE
    /\ downloadArea' = <<>>
    /\ progressWidth' = setProgress(0)
    /\ statusText' = "Sending to server..."
    /\ inflight' = Suspend("fetch")
    /\ lastEvent' = [op |-> "click", sent |-> TRUE,
                     request |-> [method |-> "POST", path |-> "/resize",
                                  body |-> BuildFormData(filesState)]]
    /\ UNCHANGED <<filesState, shell, objectURLs>>

\* processBtn "click" listener up to its first await.  A disabled button
\* receives no click.
ProcessClick ==
    /\ ~disabled
    /\ IF Len(filesState) = 0
       THEN /\ statusText' = "Add files first."
            /\ lastEvent' = [op |-> "click", sent |-> FALSE]
            /\ UNCHANGED <<filesState, disabled, progressWidth, downloadArea,
                           inflight, shell, objectURLs>>
       ELSE /\ Outstanding < MaxInflight
            /\ objectURLs + Outstanding < MaxURLs
            /\ disabled' = TRUE
            /\ downloadArea' = <<>>
            /\ progressWidth' = setProgress(0)
            /\ statusText' = "Sending to server..."
            /\ inflight' = Suspend("fetch")
            /\ lastEvent' = [op |-> "click", sent |-> TRUE,
                             request |-> [method |-> "POST", path |-> "/resize",
                                          body |-> BuildFormData(filesState)]]
            /\ UNCHANGED <<filesState, shell, objectURLs>>

\* Continuation of `await fetch(...)`: the request settles.
FetchSettled(outcome) ==
    /\ inflight["fetch"] > 0
    /\ CASE outcome = "ok" ->
              /\ inflight' = Move("fetch", "blob")
              /\ UNCHANGED <<statusText, disabled>>
         [] outcome = "notOk" ->
              /\ inflight' = Move("fetch", "json")
              /\ UNCHANGED <<statusText, disabled>>
         [] outcome = "rejected" ->
              /\ \E m \in FetchFailedMessages : statusText' = "Error: " \o m
              /\ disabled' = FALSE
              /\ inflight' = Finish("fetch")
    /\ lastEvent' = [op |-> "fetchSettled", outcome |-> outcome]
    /\ UNCHANGED <<filesState, progressWidth, downloadArea, shell, objectURLs>>

\* The message of the Error the non-2xx branch ends with, for a body: the
\* detail of a JSON object (or the default), else what response.text()
\* gives after response.json() has read the body.
ErrorMessages(body) ==
    IF body.syntax = "object"
    THEN {IF body.detail # "" THEN body.detail ELSE "Server error."}
    ELSE BodyUsedMessages

\* Continuation of `await response.json()` in the non-2xx branch, through
\* the catch and finally blocks.
ErrorBodySettled(body) ==
    /\ inflight["json"] > 0
    /\ \E m \in ErrorMessages(body) : statusText' = "Error: " \o m
    /\ disabled' = FALSE
    /\ inflight' = Finish("json")
    /\ lastEvent' = [op |-> "errorHandled", body |-> body]
    /\ UNCHANGED <<filesState, progressWidth, downloadArea, shell, objectURLs>>

BlobSettled_NoFinally(outcome) ==
    /\ inflight["blob"] > 0
    /\ IF outcome = "resolved"
       THEN /\ downloadArea' =
                  Append(downloadArea, createDownloadCard("resized_images.zip"))
            /\ objectURLs' = createObjectURL(objectURLs)
            /\ progressWidth' = setProgress(1)
            /\ statusText' = "All images processed and ready for download!"
       ELSE /\ \E m \in BodyFailedMessages : statusText' = "Error: " \o m
            /\ UNCHANGED <<downloadArea, progressWidth, objectURLs>>
    /\ UNCHANGED disabled
    /\ inflight' = Finish("blob")
    /\ lastEvent' = [op |-> "blobSettled", outcome |-> outcome]
    /\ UNCHANGED <<filesState, shell>>

\* Continuation of `await response.blob()` of a 2xx response, through the
\* finally block.
BlobSettled(outcome) ==
    /\ inflight["blob"] > 0
    /\ IF outcome = "resolved"
       THEN /\ downloadArea' =
                  Append(downloadArea, createDownloadCard("resized_images.zip"))
            /\ objectURLs' = createObjectURL(objectURLs)
            /\ progressWidth' = setProgress(1)
            /\ statusText' = "All images processed and ready for download!"
       ELSE /\ \E m \in BodyFailedMessages : statusText' = "Error: " \o m
            /\ UNCHANGED <<downloadArea, progressWidth, objectURLs>>
    /\ disabled' = FALSE
    /\ inflight' = Finish("blob")
    /\ lastEvent' = [op |-> "blobSettled", outcome |-> outcome]
    /\ UNCHANGED <<filesState, shell>>

\* The app shell before loadCurrentUser is looked at (see SpecShell).
ShellIdle == [pc |-> "off"]

WorkflowInit ==
    /\ filesState = <<>>
    /\ disabled \in BOOLEAN
    /\ statusText = ""
    /\ progressWidth = 0
    /\ downloadArea = <<>>
    /\ inflight = [p \in Positions |-> 0]
    /\ objectURLs = 0

Init == WorkflowInit /\ lastEvent = [op |-> "load"] /\ shell = ShellIdle

Next ==
    \/ \E files \in Selections : FileInputChange(files)
    \/ \E i \in 1..MaxFiles, value \in TypedValues : updateStateFromInputs(i, value)
    \/ ProcessClick
    \/ \E outcome \in {"ok", "notOk", "rejected"} : FetchSettled(outcome)
    \/ \E body \in ErrorBodies : ErrorBodySettled(body)
    \/ \E outcome \in {"resolved", "rejected"} : BlobSettled(outcome)

Spec == Init /\ [][Next]_vars

-----------------------------------------------------------------------------
(* App shell: loadCurrentUser of src/app.js *)

\* location.pathname as its segments: "/sub/app.html" is <<"sub", "app.html">>.
Pathnames == {<<"app.html">>, <<"sub", "Landing.html">>, <<"index.html">>,
              <<"myapp.html">>, <<"landing.html">>, <<"">>}

\* pathname.endsWith("/app.html") || pathname.endsWith("/Landing.html")
endsWithProtected(pathname) ==
    /\ pathname # <<>>
    /\ pathname[Len(pathname)] \in {"app.html", "Landing.html"}

\* The elements looked up at lines 5-10; each may be missing from a page.
ShellElements == {"profile", "authActions", "profileUsername", "profileName",
                  "profileAvatar", "profileAvatarFallback"}

\* window.PIXELFIT_ASSETS
ASSETS == [femaleProfileUrl |-> "female.png", maleProfileUrl |-> "male.png"]

\* data.user of a 2xx answer of /api/me; "" and <<>> stand for a missing or
\* empty member.
Users == {
    [username |-> <<>>, name |-> "", email |-> <<>>, avatar_url |-> "",
     gender |-> ""],
    [username |-> <<"b", "o">>, name |-> "Bo", email |-> <<"u", "@", "x">>,
     avatar_url |-> "https://cdn/a.png", gender |-> "male"],
    [username |-> <<>>, name |-> "", email |-> <<"u", "@", "x">>,
     avatar_url |-> "", gender |-> "female"],
    [username |-> <<>>, name |-> "Al", email |-> <<"@", "x">>,
     avatar_url |-> "", gender |-> "male"],
    [username |-> <<>>, name |-> "", email |-> <<"u">>,
     avatar_url |-> "", gender |-> "other"]}

\* email.split("@")[0]
RECURSIVE beforeAt(_)
beforeAt(email) ==
    IF email = <<>> \/ Head(email) = "@" THEN <<>>
    ELSE <<Head(email)>> \o beforeAt(Tail(email))

baseUsernameFromEmail(email) ==
    IF email = <<>> THEN <<"u", "s", "e", "r">>
    ELSE IF beforeAt(email) # <<>> THEN beforeAt(email)
    ELSE <<"u", "s", "e", "r">>

RECURSIVE Str(_)
Str(chars) == IF chars = <<>> THEN "" ELSE Head(chars) \o Str(Tail(chars))

\* The profile DOM as the markup leaves it.
InitialDoms ==
    [profileHidden : BOOLEAN, authActionsHidden : BOOLEAN,
     usernameText : {<<>>}, nameText : {""},
     avatarSrc : {""}, avatarDisplay : {""},
     fallbackText : {""}, fallbackDisplay : {""}]

\* The DOM after the writes of lines 40-45 and 85-90 (not signed in).
ShowSignedOut(sh) ==
    [sh.dom EXCEPT
        !.profileHidden = IF "profile" \in sh.present THEN TRUE ELSE @,
        !.authActionsHidden = IF "authActions" \in sh.present THEN FALSE ELSE @]

\* Lines 62-83: the avatar for a user.
ShowAvatar(dom, user) ==
    IF user.avatar_url # ""
    THEN [dom EXCEPT !.avatarSrc = user.avatar_url, !.avatarDisplay = "block",
                     !.fallbackDisplay = "none"]
    ELSE IF user.gender = "female"
    THEN [dom EXCEPT !.avatarSrc = ASSETS.femaleProfileUrl,
                     !.avatarDisplay = "block", !.fallbackDisplay = "none"]
    ELSE IF user.gender = "male"
    THEN [dom EXCEPT !.avatarSrc = ASSETS.maleProfileUrl,
                     !.avatarDisplay = "block", !.fallbackDisplay = "none"]
    ELSE [dom EXCEPT !.avatarSrc = "", !.avatarDisplay = "none",
                     !.fallbackText = "avatar-glyph",
                     !.fallbackDisplay = "block"]

\* Lines 49-83: the DOM after a 2xx answer whose body parsed.
ShowSignedIn(sh, user) ==
    LET d1 == [sh.dom EXCEPT
                 !.profileHidden =
                     IF "profile" \in sh.present THEN FALSE ELSE @,
                 !.authActionsHidden =
                     IF "authActions" \in sh.present THEN TRUE ELSE @,
                 !.usernameText =
                     IF "profileUsername" \in sh.present
                     THEN (IF user.username # <<>> THEN user.username
                           ELSE baseUsernameFromEmail(user.email))
                     ELSE @,
                 !.nameText =
                     IF "profileName" \in sh.present
                     THEN (IF user.name # "" THEN user.name
                           ELSE Str(user.email))
                     ELSE @]
    IN  IF {"profileAvatar", "profileAvatarFallback"} \subseteq sh.present
        THEN ShowAvatar(d1, user)
        ELSE d1

\* Variant: the redirect branch without its `return`.
MeNotOk_NoReturn(sh) ==
    IF endsWithProtected(sh.pathname)
    THEN [sh EXCEPT !.pc = "done", !.href = "login.html",
                    !.dom = ShowSignedOut(sh)]
    ELSE [sh EXCEPT !.pc = "done", !.dom = ShowSignedOut(sh)]

\* Lines 32-47: the shell after a non-2xx answer of /api/me.
MeNotOk(sh) ==
    IF endsWithProtected(sh.pathname)
    THEN [sh EXCEPT !.pc = "done", !.href = "login.html"]
    ELSE [sh EXCEPT !.pc = "done", !.dom = ShowSignedOut(sh)]

\* loadCurrentUser up to its first await (lines 26-31).
LoadCurrentUser ==
    /\ shell.pc = "start"
    /\ shell' = [shell EXCEPT
                    !.pc = IF shell.authToggle = "off" THEN "done" ELSE "fetch"]
    /\ lastEvent' = [op |-> "loadCurrentUser"]
    /\ UNCHANGED wfVars

\* Continuation of `await fetch(.../api/me)`.
MeFetchSettled(outcome) ==
    /\ shell.pc = "fetch"
    /\ shell' = CASE outcome = "ok" -> [shell EXCEPT !.pc = "json"]
                  [] outcome = "notOk" -> MeNotOk(shell)
                  [] outcome = "rejected" ->
                        [shell EXCEPT !.pc = "done", !.dom = ShowSignedOut(shell)]
    /\ lastEvent' = [op |-> "meSettled", outcome |-> outcome]
    /\ UNCHANGED wfVars

\* Continuation of `await response.json()` of a 2xx answer: the body parsed
\* to data with this user, or failed to parse.
MeBodySettled(parsed, user) ==
    /\ shell.pc = "json"
    /\ shell' = IF parsed
                THEN [shell EXCEPT !.pc = "done", !.dom = ShowSignedIn(shell, user)]
                ELSE [shell EXCEPT !.pc = "done", !.dom = ShowSignedOut(shell)]
    /\ lastEvent' = [op |-> "meBodySettled", parsed |-> parsed]
    /\ UNCHANGED wfVars

ShellInit ==
    /\ shell \in [pc : {"start"}, pathname : Pathnames,
                  authToggle : {"", "off"}, present : SUBSET ShellElements,
                  dom : InitialDoms, href : {""}]
    /\ filesState = <<>>
    /\ disabled = TRUE
    /\ statusText = ""
    /\ progressWidth = 0
    /\ downloadArea = <<>>
    /\ inflight = [p \in Positions |-> 0]
    /\ objectURLs = 0
    /\ lastEvent = [op |-> "load"]

ShellNext ==
    \/ LoadCurrentUser
    \/ \E outcome \in {"ok", "notOk", "rejected"} : MeFetchSettled(outcome)
    \/ \E parsed \in BOOLEAN, user \in Users : MeBodySettled(parsed, user)

SpecShell == ShellInit /\ [][ShellNext]_vars

-----------------------------------------------------------------------------
(* File selection over every shape of file name *)

NameChars == {"a", "."}

\* Names with white space around the dot.
SpacedNames == {<<" ", ".", "a">>, <<".", " ">>, <<"a", " ", ".">>}

\* File names are never empty.
AllNames == (SeqsUpTo(NameChars, MaxNameLen) \ {<<>>}) \cup SpacedNames

\* The user has picked files in the dialog; the change event is due.
SelectInit ==
    /\ WorkflowInit
    /\ shell = ShellIdle
    /\ lastEvent \in {[op |-> "picked", files |-> files] :
                        files \in SeqsUpTo(AllNames, MaxFiles) \ {<<>>}}

SelectNext == lastEvent.op = "picked" /\ FileInputChange(lastEvent.files)

SpecSelect == SelectInit /\ [][SelectNext]_vars

-----------------------------------------------------------------------------
(* Profile Controller (src/profile.js).  The page's state is held in the    *)
(* variable shell.                                                          *)

\* data.user of a 2xx answer of /api/me; "" and <<>> stand for a missing
\* member.
ProfileUsers == {
    [name |-> "", email |-> "", username |-> <<>>],
    [name |-> "Bo", email |-> "u@x", username |-> <<"b", "o">>],
    [name |-> "", email |-> "u@x", username |-> <<>>]}

\* `Signed in as ${user.name || user.email}.`
Greeting(user) ==
    "Signed in as "
    \o (IF user.name # "" THEN user.name
        ELSE IF user.email # "" THEN user.email ELSE "undefined")
    \o "."

\* Bodies of the answers of /api/username, as response.json() reads them.
UsernameBodies == {
    [raw |-> "{\"detail\":\"Username taken\"}", syntax |-> "object",
     detail |-> "Username taken"],
    [raw |-> "{\"ok\":true}", syntax |-> "object", detail |-> ""],
    [raw |-> "", syntax |-> "invalid", detail |-> ""]}

\* error.message of the SyntaxError of response.json() on a body that is
\* not JSON.
SyntaxErrorMessages == {"Unexpected end of JSON input"}

ProfilePositions == {"fetch", "jsonOk", "jsonNotOk"}

\* Variant: a failed /api/me leaves the page where it is.
ProfileMeFailed_NoRedirect(pg) == [pg EXCEPT !.me = "done"]

\* Lines 22-25 and 31-33: /api/me failed.
ProfileMeFailed(pg) == [pg EXCEPT !.me = "done", !.href = "login.html"]

\* Lines 27-30: the panel for a user.
ProfileShowUser(pg, user) ==
    [pg EXCEPT !.me = "done",
               !.panelHidden = FALSE,
               !.greeting = Greeting(user),
               !.usernameValue = user.username]

\* loadCurrentUser up to its await (lines 19-21).
ProfileLoadCurrentUser ==
    /\ shell.me = "start"
    /\ shell' = [shell EXCEPT !.me = "fetch"]
    /\ lastEvent' = [op |-> "profileLoad"]
    /\ UNCHANGED wfVars

\* Continuation of `await fetch(.../api/me)`.
ProfileMeSettled(outcome) ==
    /\ shell.me = "fetch"
    /\ shell' = IF outcome = "ok"
                THEN [shell EXCEPT !.me = "json"]
                ELSE ProfileMeFailed(shell)
    /\ lastEvent' = [op |-> "profileMeSettled", outcome |-> outcome]
    /\ UNCHANGED wfVars

\* Continuation of `await response.json()`: the body parsed to data with
\* this user, or did not parse.
ProfileMeBodySettled(parsed, user) ==
    /\ shell.me = "json"
    /\ shell' = IF parsed THEN ProfileShowUser(shell, user)
                ELSE ProfileMeFailed(shell)
    /\ lastEvent' = [op |-> "profileMeBodySettled", parsed |-> parsed,
                     user |-> user]
    /\ UNCHANGED wfVars

\* The user edits the username field.
UsernameTyped(value) ==
    /\ shell.usernameValue # value
    /\ shell' = [shell EXCEPT !.usernameValue = value]
    /\ lastEvent' = [op |-> "usernameTyped"]
    /\ UNCHANGED wfVars

ProfileOutstanding ==
    shell.username["fetch"] + shell.username["jsonOk"]
    + shell.username["jsonNotOk"] + shell.logout

\* usernameForm "submit" listener up to its await (lines 36-50).
UsernameSubmit ==
    LET username == trim(shell.usernameValue)
    IN  IF username = <<>>
        THEN /\ shell' = [shell EXCEPT
                            !.message = [text |-> "Username is required.",
                                         tone |-> "error"]]
             /\ lastEvent' = [op |-> "usernameSubmit", sent |-> FALSE,
                              typed |-> shell.usernameValue]
             /\ UNCHANGED wfVars
        ELSE /\ ProfileOutstanding < MaxInflight
             /\ shell' = [shell EXCEPT
                            !.message = [text |-> "Updating...",
                                         tone |-> "info"],
                            !.username["fetch"] = @ + 1]
             /\ lastEvent' = [op |-> "usernameSubmit", sent |-> TRUE,
                              typed |-> shell.usernameValue,
                              request |-> [method |-> "POST",
                                           path |-> "/api/username",
                                           body |-> [username |-> username]]]
             /\ UNCHANGED wfVars

\* Continuation of `await fetch(.../api/username)`.
UsernameFetchSettled(outcome) ==
    /\ shell.username["fetch"] > 0
    /\ CASE outcome = "ok" ->
              shell' = [shell EXCEPT !.username["fetch"] = @ - 1,
                                     !.username["jsonOk"] = @ + 1]
         [] outcome = "notOk" ->
              shell' = [shell EXCEPT !.username["fetch"] = @ - 1,
                                     !.username["jsonNotOk"] = @ + 1]
         [] outcome = "rejected" ->
              \E m \in FetchFailedMessages :
                  shell' = [shell EXCEPT
                              !.username["fetch"] = @ - 1,
                              !.message = [text |-> m, tone |-> "error"]]
    /\ lastEvent' = [op |-> "usernameFetchSettled", outcome |-> outcome]
    /\ UNCHANGED wfVars

\* The message the submit handler ends with once response.json() settled
\* (lines 51-58).
UsernameOutcome(ok, body) ==
    IF body.syntax = "invalid"
    THEN {[text |-> m, tone |-> "error"] : m \in SyntaxErrorMessages}
    ELSE IF ok
    THEN {[text |-> "Username updated.", tone |-> "success"]}
    ELSE {[text |-> (IF body.detail # "" THEN body.detail
                     ELSE "Unable to update username."),
           tone |-> "error"]}

\* Continuation of `await response.json()` of the submit handler.
UsernameBodySettled(ok, body) ==
    LET at == IF ok THEN "jsonOk" ELSE "jsonNotOk"
    IN  /\ shell.username[at] > 0
        /\ \E msg \in UsernameOutcome(ok, body) :
              shell' = [shell EXCEPT !.username[at] = @ - 1,
                                     !.message = msg]
        /\ lastEvent' = [op |-> "usernameBodySettled", ok |-> ok,
                         body |-> body]
        /\ UNCHANGED wfVars

\* signOutBtn "click" listener up to its await (lines 64-69); confirmed is
\* the answer to window.confirm.
SignOutClick(confirmed) ==
    /\ shell.hasSignOutBtn
    /\ IF confirmed
       THEN /\ ProfileOutstanding < MaxInflight
            /\ shell' = [shell EXCEPT !.logout = @ + 1]
            /\ lastEvent' = [op |-> "signOutClick", confirmed |-> TRUE,
                             sent |-> TRUE,
                             request |-> [method |-> "POST",
                                          path |-> "/api/logout"]]
       ELSE /\ lastEvent' = [op |-> "signOutClick", confirmed |-> FALSE,
                             sent |-> FALSE]
            /\ UNCHANGED shell
    /\ UNCHANGED wfVars

\* Continuation of `await fetch(.../api/logout)` (lines 69-70).  The handler
\* has no try: a rejection leaves it as an unhandled rejection.
LogoutSettled(outcome) ==
    /\ shell.logout > 0
    /\ shell' = IF outcome = "rejected"
                THEN [shell EXCEPT !.logout = @ - 1,
                                   !.unhandledRejection = TRUE]
                ELSE [shell EXCEPT !.logout = @ - 1, !.href = "index.html"]
    /\ lastEvent' = [op |-> "logoutSettled", outcome |-> outcome]
    /\ UNCHANGED wfVars

\* The rest of the page does not move while a controller other than the
\* workflow is looked at.
WorkflowAtRest ==
    /\ filesState = <<>>
    /\ disabled = TRUE
    /\ statusText = ""
    /\ progressWidth = 0
    /\ downloadArea = <<>>
    /\ inflight = [p \in Positions |-> 0]
    /\ objectURLs = 0

ProfileInit ==
    /\ shell \in [me : {"start"}, panelHidden : BOOLEAN, greeting : {""},
                  usernameValue : {<<>>},
                  message : {[text |-> "", tone |-> ""]},
                  href : {""}, hasSignOutBtn : BOOLEAN,
                  username : {[p \in ProfilePositions |-> 0]},
                  logout : {0}, unhandledRejection : {FALSE}]
    /\ WorkflowAtRest
    /\ lastEvent = [op |-> "load"]

ProfileNext ==
    \/ ProfileLoadCurrentUser
    \/ \E outcome \in {"ok", "notOk", "rejected"} : ProfileMeSettled(outcome)
    \/ \E parsed \in BOOLEAN, user \in ProfileUsers :
          ProfileMeBodySettled(parsed, user)
    \/ \E value \in TypedValues : UsernameTyped(value)
    \/ UsernameSubmit
    \/ \E outcome \in {"ok", "notOk", "rejected"} : UsernameFetchSettled(outcome)
    \/ \E ok \in BOOLEAN, body \in UsernameBodies : UsernameBodySettled(ok, body)
    \/ \E confirmed \in BOOLEAN : SignOutClick(confirmed)
    \/ \E outcome \in {"ok", "notOk", "rejected"} : LogoutSettled(outcome)

SpecProfile == ProfileInit /\ [][ProfileNext]_vars

-----------------------------------------------------------------------------
(* Environment Resolver: the backend base of each page script, and the      *)
(* auth-state badge of src/assets.js.                                       *)

\* window.location of the page in view.
Locations ==
    [protocol : {"http:", "https:"},
     hostname : {"localhost", "127.0.0.1", "desto374.github.io",
                 "image-resizer-deao.onrender.com"},
     port : {"", "8000", "5500"}]

\* window.location.origin
Origin(loc) ==
    loc.protocol \o "//" \o loc.hostname
    \o (IF loc.port = "" THEN "" ELSE ":" \o loc.port)

\* IS_LOCAL
IsLocal(loc) == loc.hostname = "localhost" \/ loc.hostname = "127.0.0.1"

LoopbackBase == "http://127.0.0.1:8000"

Scripts == {"app", "editor", "profile", "auth", "assets"}

\* The base the requests of a script are sent to: API_BASE of app.js,
\* editor.js, profile.js and the auth script; assets.js has no API_BASE and
\* builds its URL from window.location.origin.
ApiBase(script, loc) ==
    CASE script \in {"app", "editor"} ->
            IF IsLocal(loc) THEN LoopbackBase ELSE Origin(loc)
      [] script = "profile" ->
            IF IsLocal(loc) THEN LoopbackBase
            ELSE "https://image-resizer-rxnr.onrender.com"
      [] script = "auth" ->
            IF IsLocal(loc) THEN LoopbackBase
            ELSE "https://image-resizer-deao.onrender.com"
      [] script = "assets" -> Origin(loc)

\* The paths a script requests.
PathsOf(script) ==
    CASE script = "app" -> {"/api/me", "/resize"}
      [] script = "editor" -> {"/resize"}
      [] script = "profile" -> {"/api/me", "/api/username", "/api/logout"}
      [] script = "auth" -> {"/api/login", "/api/signup"}
      [] script = "assets" -> {"/api/me"}

\* The script runs: its constants are evaluated.
ScriptLoad ==
    /\ shell.base = "unset"
    /\ shell' = [shell EXCEPT !.base = ApiBase(shell.script, shell.loc)]
    /\ lastEvent' = [op |-> "scriptLoad"]
    /\ UNCHANGED wfVars

\* A handler of the script sends a request to the backend.
BackendRequest(path) ==
    /\ shell.base # "unset"
    /\ shell.script # "assets"
    /\ path \in PathsOf(shell.script)
    /\ lastEvent' = [op |-> "backendRequest", base |-> shell.base,
                     path |-> path]
    /\ UNCHANGED <<shell, wfVars>>

\* assets.js DOMContentLoaded listener (lines 9-23), up to its fetch.
BadgeLoad ==
    /\ shell.base # "unset"
    /\ shell.script = "assets"
    /\ shell.badge = "start"
    /\ IF ~shell.hasHomeBtn /\ ~shell.hasResizerBtn
       THEN /\ shell' = [shell EXCEPT !.badge = "done"]
            /\ lastEvent' = [op |-> "badgeLoad", sent |-> FALSE]
       ELSE /\ shell' = [shell EXCEPT !.badge = "fetch"]
            /\ lastEvent' = [op |-> "backendRequest",
                             base |-> Origin(shell.loc), path |-> "/api/me"]
    /\ UNCHANGED wfVars

\* The then and catch callbacks of the badge's fetch (lines 24-40).
BadgeSettled(outcome) ==
    /\ shell.script = "assets"
    /\ shell.badge = "fetch"
    /\ LET isLoggedIn == outcome = "ok"
       IN  shell' = [shell EXCEPT
                !.badge = "done",
                !.homeHref = IF shell.hasHomeBtn
                             THEN (IF isLoggedIn THEN "Landing.html"
                                   ELSE "index.html")
                             ELSE @,
                !.resizerHref = IF shell.hasResizerBtn
                                THEN (IF isLoggedIn THEN "Landing.html"
                                      ELSE "login.html")
                                ELSE @]
    /\ lastEvent' = [op |-> "badgeSettled", outcome |-> outcome]
    /\ UNCHANGED wfVars

EnvInit ==
    /\ shell \in [script : Scripts, loc : Locations, base : {"unset"},
                  badge : {"start"}, hasHomeBtn : BOOLEAN,
                  hasResizerBtn : BOOLEAN, homeHref : {""},
                  resizerHref : {""}]
    /\ WorkflowAtRest
    /\ lastEvent = [op |-> "load"]

EnvNext ==
    \/ ScriptLoad
    \/ \E path \in UNION {PathsOf(s) : s \in Scripts} : BackendRequest(path)
    \/ BadgeLoad
    \/ \E outcome \in {"ok", "notOk", "rejected"} : BadgeSettled(outcome)

SpecEnv == EnvInit /\ [][EnvNext]_vars

-----------------------------------------------------------------------------
(* Auth Form Controller: src/unnamed/part_000, the script of login.html    *)
(* and signup.html.                                                         *)

\* Where the auth pages are served from in the model.
AuthLocations ==
    {loc \in Locations :
        /\ loc.protocol = "https:" /\ loc.port = ""
        /\ loc.hostname \in {"localhost", "desto374.github.io"}}

\* What the forms' fields hold at submit.
LoginPayloads == [email : {"", "a@b.c"}, password : {"", "pw"}]

SignupPayloads ==
    [name : {"Ann"}, username : {"", "ann"}, gender : {"", "f"},
     email : {"a@b.c"}, password : {"pw"}]

\* error.message of the TypeError of reading .detail of null, by browser.
NullDetailMessages ==
    {"Cannot read properties of null (reading 'detail')", "data is null"}

AuthPositions == {"fetch", "json"}

AuthOutstanding == shell.auth["fetch"] + shell.auth["json"]

\* setMessage(text, tone)
setMessage(pg, text, tone) ==
    IF ~pg.hasMessageEl THEN pg
    ELSE [pg EXCEPT !.message = [text |-> text, tone |-> tone]]

\* a || b on strings
OrElse(a, b) == IF a = "" THEN b ELSE a

\* handleAuth(endpoint, payload) up to its `await fetch`.
handleAuth(endpoint, payload) ==
    /\ AuthOutstanding < MaxInflight
    /\ shell' = [setMessage(shell, "Working...", "info") EXCEPT
                    !.auth["fetch"] = @ + 1]
    /\ lastEvent' = [op |-> "authRequest",
                     url |-> ApiBase("auth", shell.loc) \o endpoint,
                     method |-> "POST", credentials |-> "include",
                     payload |-> payload]
    /\ UNCHANGED wfVars

\* The submit listener of #loginForm.
LoginSubmit(payload) ==
    /\ shell.page = "login"
    /\ handleAuth("/api/login", payload)

\* The submit listener of #signupForm.
SignupSubmit(payload) ==
    /\ shell.page = "signup"
    /\ handleAuth("/api/signup", payload)

\* The click listener of a .btn--google button.
GoogleClick ==
    /\ shell.hasGoogleBtn
    /\ shell' = [shell EXCEPT
                    !.href = ApiBase("auth", shell.loc)
                             \o "/api/auth/google/start"]
    /\ lastEvent' = [op |-> "googleClick"]
    /\ UNCHANGED wfVars

\* Continuation of `await fetch` in handleAuth.
AuthFetchSettled(outcome) ==
    /\ shell.auth["fetch"] > 0
    /\ LET pg == [shell EXCEPT !.auth["fetch"] = @ - 1]
       IN  CASE outcome.kind = "ok" ->
                  shell' = [setMessage(pg, "Success! Redirecting...",
                                       "success")
                            EXCEPT !.href = "Landing.html"]
             [] outcome.kind = "notOk" ->
                  shell' = [pg EXCEPT !.auth["json"] = @ + 1]
             [] outcome.kind = "rejected" ->
                  shell' = setMessage(pg,
                               OrElse(outcome.message, "Unable to sign in."),
                               "error")
    /\ lastEvent' = [op |-> "authFetchSettled", outcome |-> outcome.kind]
    /\ UNCHANGED wfVars

\* error.message after `await response.json().catch(() => ({}))` and
\* `throw new Error(data.detail || "Something went wrong.")`.
AuthErrorMessages(body) ==
    CASE body.syntax = "invalid" -> {"Something went wrong."}
      [] body.syntax = "null" -> NullDetailMessages
      [] body.syntax = "object" ->
            {OrElse(body.detail, "Something went wrong.")}

\* Continuation of the body read of a non-2xx response, through the catch.
AuthBodySettled(body) ==
    /\ shell.auth["json"] > 0
    /\ \E m \in AuthErrorMessages(body) :
          shell' = setMessage([shell EXCEPT !.auth["json"] = @ - 1],
                              OrElse(m, "Unable to sign in."), "error")
    /\ lastEvent' = [op |-> "authBodySettled", body |-> body]
    /\ UNCHANGED wfVars

AuthInit ==
    /\ shell \in [page : {"login", "signup"}, loc : AuthLocations,
                  hasMessageEl : BOOLEAN, hasGoogleBtn : BOOLEAN,
                  message : {[text |-> "", tone |-> ""]}, href : {""},
                  auth : {[p \in AuthPositions |-> 0]}]
    /\ WorkflowAtRest
    /\ lastEvent = [op |-> "load"]

AuthNext ==
    \/ \E payload \in LoginPayloads : LoginSubmit(payload)
    \/ \E payload \in SignupPayloads : SignupSubmit(payload)
    \/ GoogleClick
    \/ \E outcome \in [kind : {"ok", "notOk"}, message : {""}]
                      \cup [kind : {"rejected"},
                            message : FetchFailedMessages] :
          AuthFetchSettled(outcome)
    \/ \E body \in ErrorBodies : AuthBodySettled(body)

SpecAuth == AuthInit /\ [][AuthNext]_vars

-----------------------------------------------------------------------------
(* Editor Export Controller: src/editor.js.                                 *)

MaxExports == 2

EditorLocations ==
    {loc \in Locations :
        /\ loc.protocol = "http:" /\ loc.port = "5500"
        /\ loc.hostname \in {"localhost", "desto374.github.io"}}

\* Does the text contain the given run of characters?
Contains(text, run) ==
    \E i \in 0..(Len(text) - Len(run)) : SubSeq(text, i + 1, i + Len(run)) = run

\* /image\/(png|jpeg)/.test(type)
IsPngOrJpeg(type) ==
    \/ Contains(type, <<"i", "m", "a", "g", "e", "/", "p", "n", "g">>)
    \/ Contains(type, <<"i", "m", "a", "g", "e", "/", "j", "p", "e", "g">>)

\* The files the upload input can hand over.
UploadFiles ==
    {[name |-> "a.png",
      type |-> <<"i", "m", "a", "g", "e", "/", "p", "n", "g">>],
     [name |-> "b.jpg",
      type |-> <<"i", "m", "a", "g", "e", "/", "j", "p", "e", "g">>],
     [name |-> "c.gif",
      type |-> <<"i", "m", "a", "g", "e", "/", "g", "i", "f">>],
     [name |-> "d", type |-> <<>>]}

UploadNames == {f.name : f \in UploadFiles}

\* String(Date.now()) at the clicks of the model.
Clock == {"1700000000000", "1700000000001"}

\* The texts response.text() gives for a failed resize.
ResizeErrorTexts ==
    {"", "Internal Server Error", "{\"detail\":\"No files uploaded\"}"}

EditorPositions == {"fetch", "text", "blob", "reading", "loading"}

EditorOutstanding ==
    shell.export["fetch"] + shell.export["text"] + shell.export["blob"]

\* setStatus(message)
setStatus(pg, message) ==
    IF pg.hasStatusEl THEN [pg EXCEPT !.status = message] ELSE pg

\* The change listener of #editorUpload, up to reader.readAsDataURL; files
\* is event.target.files.
UploadChange(files) ==
    /\ shell.hasUploadInput
    /\ IF files = <<>>
       THEN shell' = shell
       ELSE IF ~IsPngOrJpeg(files[1].type)
       THEN shell' = setStatus(shell, "Please upload a PNG or JPG file.")
       ELSE /\ shell.export["reading"] + shell.export["loading"] < MaxInflight
            /\ shell' = [shell EXCEPT !.export["reading"] = @ + 1,
                                      !.pending[files[1].name] = @ + 1]
    /\ lastEvent' = [op |-> "uploadChange",
                     names |-> [i \in 1..Len(files) |-> files[i].name]]
    /\ UNCHANGED wfVars

\* reader.onload, up to `await editor.loadImageFromURL`.
ReaderLoaded ==
    /\ shell.export["reading"] > 0
    /\ shell' = [shell EXCEPT !.export["reading"] = @ - 1,
                              !.export["loading"] = @ + 1]
    /\ lastEvent' = [op |-> "readerLoaded"]
    /\ UNCHANGED wfVars

\* Continuation of `await editor.loadImageFromURL(dataUrl, file.name)`.
ImageLoadSettled(name, outcome) ==
    /\ shell.export["loading"] > 0
    /\ shell.pending[name] > 0
    /\ LET pg == [shell EXCEPT !.export["loading"] = @ - 1,
                               !.pending[name] = @ - 1]
       IN  shell' = IF outcome = "resolved"
                    THEN setStatus(pg, "Editing: " \o name)
                    ELSE setStatus(pg, "Unable to load the image. Try again.")
    /\ lastEvent' = [op |-> "imageLoadSettled", outcome |-> outcome]
    /\ UNCHANGED wfVars

\* The FormData of an export: one File under "files".
ExportFormData(now) ==
    <<[field |-> "files", filename |-> "pixelfit_edit_" \o now \o ".jpeg",
       type |-> "image/jpeg"]>>

\* The click listener of #exportBtn, up to its `await fetch`.
ExportClick(now) ==
    /\ shell.hasExportBtn
    /\ shell.exports < MaxExports
    /\ EditorOutstanding < MaxInflight
    /\ shell' = [setStatus(shell, "Exporting and generating sizes...") EXCEPT
                    !.exports = @ + 1,
                    !.export["fetch"] = @ + 1]
    /\ lastEvent' = [op |-> "exportRequest",
                     url |-> ApiBase("editor", shell.loc) \o "/resize",
                     method |-> "POST", credentials |-> "include",
                     entries |-> ExportFormData(now)]
    /\ UNCHANGED wfVars

\* Continuation of `await fetch` in the export listener.
ExportFetchSettled(outcome) ==
    /\ shell.export["fetch"] > 0
    /\ LET pg == [shell EXCEPT !.export["fetch"] = @ - 1]
       IN  shell' =
             CASE outcome = "ok" -> [pg EXCEPT !.export["blob"] = @ + 1]
               [] outcome = "notOk" -> [pg EXCEPT !.export["text"] = @ + 1]
               [] outcome = "rejected" ->
                    setStatus(pg, "Something went wrong while exporting.")
    /\ lastEvent' = [op |-> "exportFetchSettled", outcome |-> outcome]
    /\ UNCHANGED wfVars

\* Continuation of `await response.text()` of a non-2xx response.
ExportTextSettled_Download(outcome) ==
    /\ shell.export["text"] > 0
    /\ LET pg == [shell EXCEPT !.export["text"] = @ - 1]
       IN  shell' =
             IF outcome.kind = "read"
             THEN [setStatus(pg, "Resize failed: " \o outcome.text) EXCEPT
                      !.downloads = @ + 1]
             ELSE setStatus(pg, "Something went wrong while exporting.")
    /\ lastEvent' = [op |-> "exportTextSettled", outcome |-> outcome]
    /\ UNCHANGED wfVars

ExportTextSettled(outcome) ==
    /\ shell.export["text"] > 0
    /\ LET pg == [shell EXCEPT !.export["text"] = @ - 1]
       IN  shell' =
             IF outcome.kind = "read"
             THEN setStatus(pg, "Resize failed: " \o outcome.text)
             ELSE setStatus(pg, "Something went wrong while exporting.")
    /\ lastEvent' = [op |-> "exportTextSettled", outcome |-> outcome]
    /\ UNCHANGED wfVars

\* Continuation of `await response.blob()` of a 2xx response: the link is
\* clicked and its object URL revoked in the same turn.
ExportBlobSettled(outcome) ==
    /\ shell.export["blob"] > 0
    /\ LET pg == [shell EXCEPT !.export["blob"] = @ - 1]
       IN  shell' =
             IF outcome = "resolved"
             THEN [setStatus(pg, "Your ZIP is ready.") EXCEPT
                      !.downloads = @ + 1,
                      !.lastDownload = "pixelfit_resized_images.zip"]
             ELSE setStatus(pg, "Something went wrong while exporting.")
    /\ lastEvent' = [op |-> "exportBlobSettled", outcome |-> outcome]
    /\ UNCHANGED wfVars

EditorInit ==
    /\ shell \in [loc : EditorLocations, hasStatusEl : BOOLEAN,
                  hasUploadInput : BOOLEAN, hasExportBtn : BOOLEAN,
                  status : {""}, exports : {0}, downloads : {0},
                  lastDownload : {""},
                  export : {[p \in EditorPositions |-> 0]},
                  pending : {[n \in UploadNames |-> 0]}]
    /\ WorkflowAtRest
    /\ lastEvent = [op |-> "load"]

EditorNext ==
    \/ \E files \in {<<>>} \cup {<<f>> : f \in UploadFiles} :
          UploadChange(files)
    \/ ReaderLoaded
    \/ \E name \in UploadNames, outcome \in {"resolved", "rejected"} :
          ImageLoadSettled(name, outcome)
    \/ \E now \in Clock : ExportClick(now)
    \/ \E outcome \in {"ok", "notOk", "rejected"} : ExportFetchSettled(outcome)
    \/ \E outcome \in [kind : {"read"}, text : ResizeErrorTexts]
                      \cup {[kind |-> "rejected", text |-> ""]} :
          ExportTextSettled(outcome)
    \/ \E outcome \in {"resolved", "rejected"} : ExportBlobSettled(outcome)

SpecEditor == EditorInit /\ [][EditorNext]_vars

-----------------------------------------------------------------------------
(* The workflow under the assumption that every request settles: the       *)
(* browser resolves or rejects each pending fetch and each body read.       *)

SpecSettles ==
    /\ Init
    /\ [][Next]_vars
    /\ WF_vars(\E outcome \in {"ok", "notOk", "rejected"} : FetchSettled(outcome))
    /\ WF_vars(\E body \in ErrorBodies : ErrorBodySettled(body))
    /\ WF_vars(\E outcome \in {"resolved", "rejected"} : BlobSettled(outcome))

-----------------------------------------------------------------------------
(* What the server reads from a request *)

RECURSIVE parseJSONString(_, _, _)
parseJSONString(t, i, acc) ==
    IF t[i] = "\"" THEN [value |-> acc, next |-> i + 1]
    ELSE IF t[i] = "\\"
    THEN parseJSONString(t, i + 2,
                         Append(acc, IF t[i + 1] = "t" THEN "\t" ELSE t[i + 1]))
    ELSE parseJSONString(t, i + 1, Append(acc, t[i]))

RECURSIVE parseJSONElements(_, _, _)
parseJSONElements(t, i, acc) ==
    LET r == parseJSONString(t, i + 1, <<>>)
    IN  IF t[r.next] = ","
        THEN parseJSONElements(t, r.next + 1, Append(acc, r.value))
        ELSE Append(acc, r.value)

\* The array of strings a JSON text denotes.
JSONparseArray(t) ==
    IF t[2] = "]" THEN <<>> ELSE parseJSONElements(t, 2, <<>>)

\* The values sent under one field name, in the order of the form.
FieldValues(body, key) ==
    LET entries == SelectSeq(body, LAMBDA e : e.name = key)
    IN  [i \in 1..Len(entries) |-> entries[i].value]

RequestSent == lastEvent.op = "click" /\ lastEvent.sent

\* The folder names of the request the last click sent.
SentFolders == JSONparseArray(FieldValues(lastEvent.request.body, "base_names")[1])

MainFolders == [i \in 1..Len(filesState) |-> filesState[i].mainFolder]

-----------------------------------------------------------------------------
(* Claims *)

\* C1: whenever files are pending and no request is outstanding, the
\* process button is enabled if and only if every Pending File Entry has a
\* non-empty mainFolder.  (The claim says it of every reachable state; the
\* states in which the spec itself has the button disabled, Empty and
\* Processing, are left out here.)
C1_EnabledIffAllNamed ==
    (filesState # <<>> /\ Outstanding = 0)
        => (~disabled <=> everyMainFolder(filesState))

\* C2: at most one /resize request is outstanding at any time, and the
\* process button stays disabled from the click until the response has been
\* handled.
C2_AtMostOneOutstanding ==
    /\ Outstanding <= 1
    /\ Outstanding > 0 => disabled

\* C3: no /resize request is sent whose folder-name list contains an entry
\* that is empty after trimming.
C3_NoBlankFolderSent ==
    RequestSent => \A i \in 1..Len(SentFolders) : trim(SentFolders[i]) # <<>>

\* C4: when a successful /resize response has been handled, the download
\* area shows exactly one artifact, named resized_images.zip, and progress
\* is at 100%.
C4_SuccessShowsOneArtifact ==
    (lastEvent.op = "blobSettled" /\ lastEvent.outcome = "resolved")
        => /\ Len(downloadArea) = 1
           /\ downloadArea[1].label = "resized_images.zip"
           /\ downloadArea[1].download = "resized_images.zip"
           /\ progressWidth = 100

\* C5: when a non-2xx answer has a body that is not parseable JSON, the
\* status message is "Error: " followed by the raw body text.
C5_RawTextFallback ==
    (lastEvent.op = "errorHandled" /\ lastEvent.body.syntax = "invalid")
        => statusText = "Error: " \o lastEvent.body.raw

\* C6: when a non-2xx answer has a JSON body whose detail is a non-empty
\* string D, the status message is exactly "Error: D", no download artifact
\* is there and progress is at 0.
C6_DetailShown ==
    (/\ lastEvent.op = "errorHandled"
     /\ lastEvent.body.syntax = "object"
     /\ lastEvent.body.detailType = "string"
     /\ lastEvent.body.detail # "")
        => /\ statusText = "Error: " \o lastEvent.body.detail
           /\ downloadArea = <<>>
           /\ progressWidth = 0

\* The position of the last dot of a name, 0 if it has none.
LastDot(name) ==
    LET dots == {i \in 1..Len(name) : name[i] = "."}
    IN  IF dots = {} THEN 0 ELSE CHOOSE i \in dots : \A k \in dots : k <= i

\* A name without its final extension: what precedes the last dot, when
\* something follows that dot.
WithoutFinalExtension(name) ==
    IF LastDot(name) = 0 \/ LastDot(name) = Len(name)
    THEN name
    ELSE SubSeq(name, 1, LastDot(name) - 1)

\* C7: after a selection of N >= 1 files the Pending File Entry sequence has
\* length N, holds the files in selection order, and each mainFolder is the
\* file's name without its final extension, or "image" if that is empty.
C7_SelectionBuildsEntries ==
    lastEvent.op = "change" =>
        /\ Len(filesState) = Len(lastEvent.files)
        /\ \A i \in 1..Len(filesState) :
              /\ filesState[i].file = lastEvent.files[i]
              /\ filesState[i].mainFolder =
                    IF WithoutFinalExtension(lastEvent.files[i]) = <<>>
                    THEN <<"i", "m", "a", "g", "e">>
                    ELSE WithoutFinalExtension(lastEvent.files[i])

\* C7 witness: two files were selected, the first loses its extension, the
\* second is an extension only.
C7_Witness ==
    /\ lastEvent.op = "change"
    /\ Len(filesState) = 2
    /\ filesState[1].file = <<"a", ".", "a">>
    /\ filesState[1].mainFolder = <<"a">>
    /\ filesState[2].file = <<".", "a">>
    /\ filesState[2].mainFolder = <<"i", "m", "a", "g", "e">>

\* C8: a request carries the files of the sequence in order under `files`,
\* and under both base_names and main_folder the same list, whose i-th name
\* is the mainFolder of the i-th file at the click.
C8_RequestAlignsFilesAndFolders ==
    RequestSent =>
        LET body == lastEvent.request.body
            files == FieldValues(body, "files")
            base == FieldValues(body, "base_names")
            main == FieldValues(body, "main_folder")
        IN  /\ Len(body) = Len(filesState) + 2
            /\ Len(files) = Len(filesState)
            /\ \A i \in 1..Len(files) : files[i] = filesState[i].file
            /\ Len(base) = 1 /\ Len(main) = 1
            /\ base[1] = main[1]
            /\ JSONparseArray(base[1]) = MainFolders

\* C8 witness: a request for two files whose folder names differ, one of
\* them typed by the user.
C8_Witness ==
    /\ RequestSent
    /\ Len(filesState) = 2
    /\ filesState[1].mainFolder = <<"c">>
    /\ filesState[2].mainFolder = <<"i", "m", "a", "g", "e">>
    /\ filesState[1].file # filesState[2].file

\* C9: no request is sent while the sequence is empty, and a click on an
\* empty sequence only sets the status to "Add files first.".
C9_EmptyClickOnlySetsStatus ==
    [][/\ (lastEvent'.op = "click" /\ lastEvent'.sent) => filesState # <<>>
       /\ (lastEvent'.op = "click" /\ filesState = <<>>)
             => /\ statusText' = "Add files first."
                /\ ~lastEvent'.sent
                /\ UNCHANGED <<filesState, disabled, progressWidth,
                               downloadArea, inflight>>]_vars

\* C9 witness: the batch was replaced by an empty selection while a request
\* was outstanding, and the button, enabled again, was clicked.
C9_Witness ==
    /\ lastEvent.op = "click"
    /\ ~lastEvent.sent
    /\ filesState = <<>>
    /\ statusText = "Add files first."
    /\ Outstanding > 0

\* C10: on a protected page a non-2xx answer of /api/me makes loadCurrentUser
\* navigate to login.html, and the profile DOM is not changed by that step
\* nor after it.
C10_RedirectWithoutProfileMutation ==
    [][/\ (/\ shell.pc = "fetch"
           /\ lastEvent'.op = "meSettled"
           /\ lastEvent'.outcome = "notOk"
           /\ endsWithProtected(shell.pathname))
             => /\ shell'.href = "login.html"
                /\ shell'.dom = shell.dom
       /\ shell.href = "login.html" => shell'.dom = shell.dom]_vars

\* C10 witness: the redirect happened on a page whose profile panel is
\* present and shown, so that hiding it would have been a change.
C10_Witness ==
    /\ shell.pc = "done"
    /\ shell.href = "login.html"
    /\ endsWithProtected(shell.pathname)
    /\ {"profile", "authActions"} \subseteq shell.present
    /\ ~shell.dom.profileHidden
    /\ shell.dom.authActionsHidden

\* C11: the profile page's loadCurrentUser redirects to login.html on every
\* failure of the /api/me fetch (non-2xx or rejected) without revealing the
\* panel, and the panel is revealed only by a successful answer, which also
\* sets the greeting and the username field.
C11_ProfileRedirectsOnFailure ==
    [][/\ (/\ shell.me = "fetch"
           /\ lastEvent'.op = "profileMeSettled"
           /\ lastEvent'.outcome \in {"notOk", "rejected"})
             => /\ shell'.href = "login.html"
                /\ shell'.panelHidden = shell.panelHidden
                /\ shell'.greeting = shell.greeting
                /\ shell'.usernameValue = shell.usernameValue
       /\ (shell.panelHidden /\ ~shell'.panelHidden)
             => /\ lastEvent'.op = "profileMeBodySettled"
                /\ lastEvent'.parsed
       /\ (/\ shell.me = "json"
           /\ lastEvent'.op = "profileMeBodySettled"
           /\ lastEvent'.parsed)
             => /\ ~shell'.panelHidden
                /\ shell'.href = shell.href
                /\ shell'.usernameValue = lastEvent'.user.username
                /\ shell'.greeting \in
                      {"Signed in as Bo.", "Signed in as u@x.",
                       "Signed in as undefined."}]_vars

\* C11 witness: the fetch was rejected on a page whose panel is hidden, and
\* the page was sent to login.html with the panel still hidden.
C11_Witness ==
    /\ lastEvent.op = "profileMeSettled"
    /\ lastEvent.outcome = "rejected"
    /\ shell.href = "login.html"
    /\ shell.panelHidden
    /\ shell.greeting = ""

\* C12: without confirmation no logout request is sent; once the logout
\* request of a confirmed sign-out has settled, whatever its outcome, the
\* page has navigated to index.html.
C12_SignOutNavigates ==
    /\ (lastEvent.op = "signOutClick" /\ ~lastEvent.confirmed)
          => ~lastEvent.sent
    /\ (lastEvent.op = "signOutClick" /\ lastEvent.confirmed)
          => (lastEvent.sent /\ lastEvent.request.path = "/api/logout")
    /\ lastEvent.op = "logoutSettled" => shell.href = "index.html"

\* C13: a blank username is rejected with a message and no request; a
\* non-2xx answer with a detail shows that detail as an error; every 2xx
\* answer of /api/username ends in "Username updated.".
C13_UsernameUpdateOutcomes ==
    /\ (lastEvent.op = "usernameSubmit" /\ trim(lastEvent.typed) = <<>>)
          => /\ ~lastEvent.sent
             /\ shell.message = [text |-> "Username is required.",
                                 tone |-> "error"]
    /\ (/\ lastEvent.op = "usernameBodySettled"
        /\ ~lastEvent.ok
        /\ lastEvent.body.syntax = "object"
        /\ lastEvent.body.detail # "")
          => shell.message = [text |-> lastEvent.body.detail, tone |-> "error"]
    /\ (lastEvent.op = "usernameBodySettled" /\ lastEvent.ok)
          => shell.message = [text |-> "Username updated.", tone |-> "success"]

\* C19: a rejected fetch is caught and ends in a message for the user: on
\* the profile page, for the username update and for the logout request.
C19_RejectedFetchCaught ==
    /\ (lastEvent.op = "usernameFetchSettled" /\ lastEvent.outcome = "rejected")
          => (shell.message.tone = "error" /\ shell.message.text # "")
    /\ (lastEvent.op = "logoutSettled" /\ lastEvent.outcome = "rejected")
          => (~shell.unhandledRejection /\ shell.message.text # "")

\* C16: every request a page script sends to the backend goes to the
\* loopback base when the page's hostname is localhost or 127.0.0.1, and to
\* the configured production host or the page's own origin otherwise; the
\* base chosen at page load never changes.
C16_BaseFollowsHostname ==
    /\ lastEvent.op = "backendRequest" =>
          IF shell.loc.hostname \in {"localhost", "127.0.0.1"}
          THEN lastEvent.base = "http://127.0.0.1:8000"
          ELSE lastEvent.base \in
                  {"https://image-resizer-rxnr.onrender.com",
                   "https://image-resizer-deao.onrender.com",
                   Origin(shell.loc)}
    /\ shell.base # "unset" => shell.base = ApiBase(shell.script, shell.loc)

\* The detail of an error body as the server wrote it.
DetailText(body) ==
    IF body.detailType = "array" THEN "[{\"msg\":\"field required\"}]"
    ELSE body.detail

\* C14: handleAuth ends in one of two outcomes for every response: on
\* non-2xx the message shows the body's detail, or the generic default when
\* the body has no detail or is not JSON, with error tone and no navigation;
\* on 2xx the success message is shown and the page navigates to
\* Landing.html; a rejected fetch is caught and shown as an error message.
C14_AuthOutcomes ==
    [][/\ lastEvent'.op = "authBodySettled" =>
            /\ shell'.href = shell.href
            /\ shell.hasMessageEl =>
                  shell'.message =
                     [text |-> IF /\ lastEvent'.body.syntax = "object"
                                  /\ lastEvent'.body.detailType # "undefined"
                                  /\ DetailText(lastEvent'.body) # ""
                               THEN DetailText(lastEvent'.body)
                               ELSE "Something went wrong.",
                      tone |-> "error"]
       /\ lastEvent'.op = "authFetchSettled" =>
            CASE lastEvent'.outcome = "ok" ->
                    /\ shell'.href = "Landing.html"
                    /\ shell.hasMessageEl =>
                          shell'.message = [text |-> "Success! Redirecting...",
                                            tone |-> "success"]
              [] lastEvent'.outcome = "notOk" ->
                    /\ shell'.href = shell.href
                    /\ shell'.message = shell.message
              [] lastEvent'.outcome = "rejected" ->
                    /\ shell'.href = shell.href
                    /\ shell.hasMessageEl =>
                          /\ shell'.message.tone = "error"
                          /\ shell'.message.text # ""]_vars

\* C15: every export click sends exactly one multipart request to
\* {apiBase}/resize with a single entry, under the field name files; a
\* non-2xx response whose body text is read leaves the status message equal
\* to "Resize failed: " followed by that text, and no download is triggered.
C15_ExportRequestAndFailure ==
    [][/\ shell'.exports # shell.exports =>
            /\ shell'.exports = shell.exports + 1
            /\ shell'.export["fetch"] = shell.export["fetch"] + 1
            /\ lastEvent'.op = "exportRequest"
            /\ lastEvent'.url = ApiBase("editor", shell.loc) \o "/resize"
            /\ Len(lastEvent'.entries) = 1
            /\ lastEvent'.entries[1].field = "files"
       /\ lastEvent'.op = "exportRequest" =>
            shell'.exports = shell.exports + 1
       /\ (lastEvent'.op = "exportFetchSettled"
              /\ lastEvent'.outcome = "notOk") =>
            shell'.downloads = shell.downloads
       /\ lastEvent'.op = "exportTextSettled" =>
            /\ shell'.downloads = shell.downloads
            /\ (lastEvent'.outcome.kind = "read" /\ shell.hasStatusEl) =>
                  shell'.status = "Resize failed: " \o lastEvent'.outcome.text
      ]_vars

\* A failed resize whose body text was read and is shown.
C15_Witness ==
    /\ lastEvent.op = "exportTextSettled"
    /\ lastEvent.outcome.kind = "read"
    /\ lastEvent.outcome.text = "Internal Server Error"
    /\ shell.status = "Resize failed: Internal Server Error"
    /\ shell.exports = 1
    /\ shell.downloads = 0

\* The status texts of the catch block: "Error: " and an error's message.
ErrorStatuses ==
    {"Error: " \o m : m \in FetchFailedMessages \cup BodyFailedMessages
                            \cup UNION {ErrorMessages(b) : b \in ErrorBodies}}

\* A request has just ended in Done or Error.
Finished ==
    /\ \/ lastEvent.op \in {"errorHandled", "blobSettled"}
       \/ lastEvent.op = "fetchSettled" /\ lastEvent.outcome = "rejected"
    /\ ~disabled
    /\ statusText \in {"All images processed and ready for download!"}
                      \cup ErrorStatuses

\* C17: when every request settles, a process click that started a request
\* is eventually followed by its end in Done or Error: the status shows the
\* success text or "Error: <message>" and the process button is enabled
\* again; the controller does not stay in Processing with the button
\* disabled.
C17_ClickEventuallyFinishes ==
    /\ RequestSent ~> Finished
    /\ (Outstanding > 0) ~> Finished

\* A request that ended in Error, with nothing left outstanding.
C17_Witness ==
    /\ Finished
    /\ lastEvent.op = "errorHandled"
    /\ Outstanding = 0
    /\ statusText = "Error: bad image"

\* C18: a file selection in any state returns the workflow to Loaded: the
\* entries are those of the new selection, the download area is empty and
\* progress is 0; and it stays without artifact and at progress 0 until a
\* process click made after the selection, whatever answers arrive for
\* requests sent before it.
C18_ReselectionReturnsToLoaded ==
    [][/\ lastEvent'.op = "change" =>
            /\ [i \in 1..Len(filesState') |-> filesState'[i].file]
                  = lastEvent'.files
            /\ downloadArea' = <<>>
            /\ progressWidth' = 0
       /\ (lastEvent.op = "change"
              /\ ~(lastEvent'.op = "click" /\ lastEvent'.sent)) =>
            /\ downloadArea' = <<>>
            /\ progressWidth' = 0
      ]_vars

\* C20: the object URLs of download artifacts are released when superseded:
\* at any time at most one object URL created by createDownloadCard is
\* un-revoked, so that the URL of an earlier artifact is revoked by the time
\* a new batch is processed or a new selection clears the download area.
C20_AtMostOneLiveObjectURL ==
    /\ objectURLs <= 1
    /\ (lastEvent.op = "change" \/ RequestSent) => objectURLs = 0

\* C21: between handlers, once a file selection or a process click has
\* happened, the progress indicator is at 100% exactly when the download
\* area holds at least one artifact and at 0% otherwise, for every
\* interleaving of selections, edits, clicks and answers; an "Error: ..."
\* status at 100% progress therefore comes with an artifact shown.
C21_ProgressFullIffArtifact ==
    lastEvent.op # "load" =>
        /\ progressWidth \in {0, 100}
        /\ progressWidth = 100 <=> downloadArea # <<>>
        /\ (statusText \in ErrorStatuses /\ progressWidth = 100) =>
              Len(downloadArea) >= 1

\* An error status next to a finished batch: full progress, artifact shown.
C21_Witness ==
    /\ statusText \in ErrorStatuses
    /\ progressWidth = 100
    /\ downloadArea # <<>>
    /\ lastEvent.op \in {"errorHandled", "fetchSettled", "blobSettled"}

====
